---------------------------- MODULE Spec2Model ----------------------------
(***************************************************************************)
(* vite-plugin-inline-js: the closeBundle hook that walks dist/, finds     *)
(* <script src=...></script> tags in every HTML file and replaces the      *)
(* eligible ones by an inline <script> element.                            *)
(*                                                                         *)
(* Text is modelled character by character: a string is a sequence of      *)
(* one-character strings, so that the regular expression, the match        *)
(* cursor (lastIndex), String.prototype.replace and path.resolve are       *)
(* computed as the JavaScript computes them.                               *)
(***************************************************************************)
EXTENDS Integers, Sequences, FiniteSets, TLC

(* ------------------------------------------------------------------ *)
(* Bounds of the model                                                  *)
(* ------------------------------------------------------------------ *)
MaxTags == 2
MaxGap == 1
MaxRuns == 2
\* the longest document text the model follows (a rewrite can grow the text
\* without end)
MaxText == 250
\* the history keeps the last MaxSteps iterations of a match loop and the
\* last MaxWarns warnings of a run
MaxSteps == 8
MaxWarns == 20
\* how many times something other than closeBundle writes an HTML file
MaxForeign == 1

(* ------------------------------------------------------------------ *)
(* Strings                                                              *)
(* ------------------------------------------------------------------ *)
\* The element of a one-element set. { F(x) : x \in {e} } computes e once,
\* where a LET would compute it at each use of its name.
Only(S) == CHOOSE x \in S : TRUE

\* t.startsWith(p, i - 1): p occurs in t at the 1-based index i
StartsWithAt(t, i, p) ==
    /\ i >= 1
    /\ i + Len(p) - 1 <= Len(t)
    /\ SubSeq(t, i, i + Len(p) - 1) = p

\* the least and the greatest element of a non-empty set of integers
MinOf(S) == CHOOSE x \in S : \A y \in S : x <= y
MaxOf(S) == CHOOSE x \in S : \A y \in S : x >= y

\* the 1-based index of the first occurrence of p in t at or after i, 0 if none
IndexFrom(t, p, i) ==
    LET at == { j \in i..(Len(t) - Len(p) + 1) : StartsWithAt(t, j, p) }
    IN  IF at = {} THEN 0 ELSE MinOf(at)

\* String.prototype.includes
Includes(t, p) == IndexFrom(t, p, 1) # 0

\* String.prototype.endsWith
EndsWith(t, p) == Len(t) >= Len(p) /\ StartsWithAt(t, Len(t) - Len(p) + 1, p)

\* the regular expression's \s, within the characters the model uses
IsSpace(c) == c \in {" ", "\n", "\t"}
IsQuote(c) == c \in {"\"", "'"}

\* the first index at or after i whose character is not white space,
\* Len(t) + 1 if none: where a greedy \s* that starts at i stops
SpaceRunEnd(t, i) ==
    MinOf({ j \in i..Len(t) : ~IsSpace(t[j]) } \cup {Len(t) + 1})

\* the first index at or after i that holds ">", Len(t) + 1 if none:
\* where a greedy [^>]* that starts at i stops
NextGt(t, i) ==
    MinOf({ j \in i..Len(t) : t[j] = ">" } \cup {Len(t) + 1})

\* the first index at or after i that holds a quote, Len(t) + 1 if none:
\* where a greedy [^"']+ that starts at i stops
NextQuote(t, i) ==
    MinOf({ j \in i..Len(t) : IsQuote(t[j]) } \cup {Len(t) + 1})

(* ------------------------------------------------------------------ *)
(* scriptTagPattern:                                                    *)
(*   /<script\s+[^>]*src=["']([^"']+)["'][^>]*>\s*<\/script>/g         *)
(* ------------------------------------------------------------------ *)
ScriptOpen == <<"<","s","c","r","i","p","t">>
SrcEq == <<"s","r","c","=">>
ScriptClose == <<"<","/","s","c","r","i","p","t",">">>

\* The tail of the pattern from  src=  on, tried with  src=  at index p:
\*   src=["']([^"']+)["'][^>]*>\s*<\/script>
\* Every quantifier here is followed by a character outside its class, so
\* the tail matches in at most one way.
NoMatch == [ok |-> FALSE, at |-> 0, stop |-> 0, src |-> <<>>]

TailAt(t, p) ==
    LET q  == p + Len(SrcEq)
        v0 == q + 1
        v1 == NextQuote(t, v0)
        h  == NextGt(t, v1 + 1)
        e  == SpaceRunEnd(t, h + 1)
    IN  IF /\ StartsWithAt(t, p, SrcEq)
           /\ q <= Len(t) /\ IsQuote(t[q])
           /\ v1 > v0 /\ v1 <= Len(t)
           /\ h <= Len(t)
           /\ StartsWithAt(t, e, ScriptClose)
        THEN [ok |-> TRUE, at |-> p, stop |-> e + Len(ScriptClose),
              src |-> SubSeq(t, v0, v1 - 1)]
        ELSE NoMatch

\* [^>]* is greedy: of the places p in lo..hi where the tail matches, the
\* backtracking engine takes the rightmost
LastTail(t, lo, hi) ==
    LET tails == { m \in { TailAt(t, p) : p \in lo..hi } : m.ok }
    IN  IF tails = {} THEN NoMatch
        ELSE CHOOSE m \in tails : \A n \in tails : m.at >= n.at

\* An attempt to match the whole pattern at the 1-based index i:
\* <script, \s+ up to w, [^>]* up to a src= before the first ">" at g
MatchAt(t, i) ==
    LET a == i + Len(ScriptOpen)
        w == SpaceRunEnd(t, a)
        g == NextGt(t, w)
    IN  IF StartsWithAt(t, i, ScriptOpen) /\ w > a
        THEN LastTail(t, w, g - Len(SrcEq))
        ELSE NoMatch

\* the first index at or after i where the pattern matches, 0 if none
FirstMatchFrom(t, i) ==
    LET at == { j \in i..Len(t) : MatchAt(t, j).ok }
    IN  IF at = {} THEN 0 ELSE MinOf(at)

\* RegExp.prototype.exec of a pattern whose lastIndex is li (0-based).
\* A global pattern searches from lastIndex and leaves lastIndex at the end
\* of the match, or at 0 when nothing matches; a pattern without the g flag
\* searches from 0 and leaves lastIndex alone.
RegExec(t, li, global) ==
    LET Found(i, m) ==
            [found |-> TRUE, index |-> i - 1,
             full |-> SubSeq(t, i, m.stop - 1), src |-> m.src,
             stop |-> m.stop - 1,
             lastIndex |-> IF global THEN m.stop - 1 ELSE li]
        Result(i) ==
            IF i = 0
            THEN [found |-> FALSE, index |-> 0, full |-> <<>>, src |-> <<>>,
                  stop |-> 0, lastIndex |-> IF global THEN 0 ELSE li]
            ELSE Only({ Found(i, m) : m \in {MatchAt(t, i)} })
    IN  Only({ Result(i) :
                 i \in {FirstMatchFrom(t, IF global THEN li + 1 ELSE 1)} })

(* ------------------------------------------------------------------ *)
(* String.prototype.replace(searchString, replaceString)                *)
(* ------------------------------------------------------------------ *)
RECURSIVE GetSubstitution(_, _, _, _)
\* The replacement text with its $ patterns expanded: $$ is a dollar, $& the
\* matched text and $' the text after the match. A string search has no
\* captures, so $1..$99 and $< stay as written. (The fourth pattern, a
\* dollar and a grave accent for the text before the match, needs a
\* character that no text of the model holds; pre is kept for it.)
GetSubstitution(r, matched, pre, post) ==
    LET at == { i \in 1..(Len(r) - 1) :
                  r[i] = "$" /\ r[i + 1] \in {"$", "&", "'"} }
        Expand(i) ==
            SubSeq(r, 1, i - 1)
            \o (CASE r[i + 1] = "$" -> <<"$">>
                   [] r[i + 1] = "&" -> matched
                   [] OTHER          -> post)
            \o GetSubstitution(SubSeq(r, i + 2, Len(r)), matched, pre, post)
    IN  IF at = {} THEN r ELSE Only({ Expand(i) : i \in {MinOf(at)} })

\* the text inserted by  t.replace(pat, r)  (pat occurs in t)
Inserted(t, pat, r) ==
    LET At(i) == GetSubstitution(r, pat, SubSeq(t, 1, i - 1),
                                 SubSeq(t, i + Len(pat), Len(t)))
    IN  Only({ At(i) : i \in {IndexFrom(t, pat, 1)} })

\* t.replace(pat, r): only the first occurrence of pat is replaced
RECURSIVE StrReplaceAll(_, _, _)
\* a replace that substitutes every occurrence of pat, not only the first
StrReplaceAll(t, pat, r) ==
    LET At(i) == IF i = 0 THEN t
                 ELSE SubSeq(t, 1, i - 1) \o Inserted(t, pat, r)
                      \o StrReplaceAll(SubSeq(t, i + Len(pat), Len(t)), pat, r)
    IN  Only({ At(i) : i \in {IndexFrom(t, pat, 1)} })

StrReplace(t, pat, r) ==
    LET At(i) == IF i = 0 THEN t
                 ELSE SubSeq(t, 1, i - 1) \o Inserted(t, pat, r)
                      \o SubSeq(t, i + Len(pat), Len(t))
    IN  Only({ At(i) : i \in {IndexFrom(t, pat, 1)} })

(* ------------------------------------------------------------------ *)
(* Paths (POSIX)                                                        *)
(* ------------------------------------------------------------------ *)
Slash == <<"/">>
DotSlash == <<".","/">>
Dot == <<".">>
DotDot == <<".",".">>

\* the segments of p between its slashes, empty ones included
SplitPath(p) ==
    LET \* the positions of the slashes of q, and its two ends
        Cuts(q) == { i \in 1..Len(q) : q[i] = "/" } \cup {0, Len(q) + 1}
        \* the cut after the cut c
        After(cuts, c) == MinOf({ x \in cuts : x > c })
        \* the k-th cut, counted from 1
        Kth(cuts, k) ==
            CHOOSE c \in cuts : Cardinality({ x \in cuts : x < c }) = k - 1
        Parts(q, cuts) ==
            [ k \in 1..(Cardinality(cuts) - 1) |->
                Only({ SubSeq(q, c + 1, After(cuts, c) - 1) :
                         c \in {Kth(cuts, k)} }) ]
        Split(q) == Only({ Parts(q, cuts) : cuts \in {Cuts(q)} })
    IN  Only({ Split(q) : q \in {p} })

RECURSIVE NormalizeSegs(_, _)
\* an absolute path normalised: empty and "." segments go, ".." drops the
\* segment before it (and is dropped at the root)
NormalizeSegs(segs, acc) ==
    LET Rest(h, t, a) ==
            IF h = <<>> \/ h = Dot THEN NormalizeSegs(t, a)
            ELSE IF h = DotDot
            THEN Only({ NormalizeSegs(t, b) :
                          b \in {IF a = <<>> THEN a
                                 ELSE SubSeq(a, 1, Len(a) - 1)} })
            ELSE Only({ NormalizeSegs(t, b) : b \in {Append(a, h)} })
        Go(s, a) == IF s = <<>> THEN a
                    ELSE Only({ Rest(h, t, a) : h \in {Head(s)}, t \in {Tail(s)} })
    IN  Only({ Go(s, a) : s \in {segs}, a \in {acc} })

RECURSIVE JoinPath(_)
JoinPath(segs) ==
    LET Go(s) == IF s = <<>> THEN <<>>
                 ELSE Slash \o Head(s) \o JoinPath(Tail(s))
    IN  Only({ Go(s) : s \in {segs} })

IsAbsolute(p) == Len(p) >= 1 /\ p[1] = "/"

\* path.resolve(base, rel) for an absolute base: an absolute rel replaces
\* the base, an empty one is ignored, and the result is normalised
PathResolve(base, rel) ==
    LET Joined(segs) == IF segs = <<>> THEN Slash ELSE JoinPath(segs)
        Normal(parts) == Only({ Joined(segs) :
                                  segs \in {NormalizeSegs(parts, <<>>)} })
        Resolved(b, r) ==
            Only({ Normal(parts) :
                     parts \in {SplitPath(IF IsAbsolute(r) THEN r
                                          ELSE b \o Slash \o r)} })
    IN  Only({ Resolved(b, r) : b \in {base}, r \in {rel} })

\* the segments of a normalised absolute path
Segs(p) == Only({ NormalizeSegs(parts, <<>>) : parts \in {SplitPath(p)} })

\* path.dirname of a normalised absolute path
PathDirname(p) ==
    LET Parent(segs) == IF Len(segs) <= 1 THEN Slash
                        ELSE JoinPath(SubSeq(segs, 1, Len(segs) - 1))
    IN  Only({ Parent(segs) : segs \in {Segs(p)} })

\* path.join(dir, name) of findHtmlFiles: dir is normalised, name is one entry
PathJoin(dir, name) == PathResolve(dir, name)

\* srcPath.replace(/^\.\//, "")
StripDotSlash(s) ==
    LET Strip(t) == IF StartsWithAt(t, 1, DotSlash) THEN SubSeq(t, 3, Len(t))
                    ELSE t
    IN  Only({ Strip(t) : t \in {s} })

(* ------------------------------------------------------------------ *)
(* Plugin options and the text the plugin writes                        *)
(* ------------------------------------------------------------------ *)
Http == <<"h","t","t","p">>
InlineWord == <<"i","n","l","i","n","e">>
HtmlExt == <<".","h","t","m","l">>
InlineOpen == <<"<","s","c","r","i","p","t",">","\n">>

\* the default of options.sourceDirs
DefaultSourceDirs == << <<"s","r","c">>, <<"p","u","b","l","i","c">> >>

\* process.cwd() and path.resolve(process.cwd(), "dist")
Cwd == <<"/","w">>
DistDir == PathResolve(Cwd, <<"d","i","s","t">>)

\* The test that leaves a matched tag alone: an "external" source path or,
\* unless inlineAll, a tag text without the word inline
SkipsTag(fullMatch, srcPath, inlineAll) ==
    \/ StartsWithAt(srcPath, 1, Http)
    \/ (~Includes(fullMatch, InlineWord) /\ ~inlineAll)

\* the new script tag:  <script>\n${jsContent}</script>
InlineScriptTag(jsContent) == InlineOpen \o jsContent \o ScriptClose

(* ------------------------------------------------------------------ *)
(* The file system: a function from the paths that exist to entries     *)
(*   [kind, data, names, r, w]                                          *)
(* kind is "file" or "dir", data a file's text, names a directory's     *)
(* listing in the order readdirSync returns it, r and w whether reading *)
(* and writing succeed.                                                 *)
(* ------------------------------------------------------------------ *)
ExistsSync(d, path) == path \in DOMAIN d

\* fs.readFileSync(path, "utf-8"): throws on a directory or without permission
ReadFails(d, path) ==
    ~ExistsSync(d, path) \/ d[path].kind # "file" \/ ~d[path].r

\* fs.writeFileSync(path, text, "utf-8")
WriteFails(d, path) ==
    ExistsSync(d, path) /\ (d[path].kind # "file" \/ ~d[path].w)

RECURSIVE FindHtmlFiles(_, _, _, _)
\* findHtmlFiles(dir, fileList), at the entry names[i] of dir's listing:
\* directories are walked depth first, files ending in .html are kept.
\* The result is [ok, list]; ok is FALSE when readdirSync threw.
FindHtmlFiles(d, dir, i, fileList) ==
    IF ~ExistsSync(d, dir) \/ d[dir].kind # "dir" \/ ~d[dir].r
    THEN [ok |-> FALSE, list |-> fileList]
    ELSE IF i > Len(d[dir].names) THEN [ok |-> TRUE, list |-> fileList]
    ELSE LET file == d[dir].names[i]
             After(sub) == IF sub.ok THEN FindHtmlFiles(d, dir, i + 1, sub.list)
                           ELSE sub
             Entry(filePath) ==
                 IF d[filePath].kind = "dir"
                 THEN Only({ After(sub) :
                               sub \in {FindHtmlFiles(d, filePath, 1, fileList)} })
                 ELSE IF EndsWith(file, HtmlExt)
                 THEN FindHtmlFiles(d, dir, i + 1, Append(fileList, filePath))
                 ELSE FindHtmlFiles(d, dir, i + 1, fileList)
         IN  Only({ Entry(filePath) : filePath \in {PathJoin(dir, file)} })

RECURSIVE TrySourceDirs(_, _, _, _)
\* the loop over sourceDirs: the first directory that holds the file wins.
\* tried lists the paths existsSync was asked about.
TrySourceDirs(d, dirs, srcPath, tried) ==
    IF dirs = <<>> THEN [exists |-> FALSE, path |-> <<>>, tried |-> tried]
    ELSE LET Try(attemptPath) ==
                 IF ExistsSync(d, attemptPath)
                 THEN [exists |-> TRUE, path |-> attemptPath,
                       tried |-> Append(tried, attemptPath)]
                 ELSE TrySourceDirs(d, Tail(dirs), srcPath,
                                    Append(tried, attemptPath))
         IN  Only({ Try(attemptPath) :
                      attemptPath \in {PathResolve(PathResolve(Cwd, Head(dirs)),
                                                   StripDotSlash(srcPath))} })

\* a search that asks dist before the directory of the HTML file
ResolveSourceDistFirst(d, htmlFile, srcPath, sourceDirs) ==
    LET p1 == PathResolve(DistDir, srcPath)
        p2 == PathResolve(PathDirname(htmlFile), srcPath)
        p3 == PathResolve(Cwd, srcPath)
    IN  IF ExistsSync(d, p1)
        THEN [exists |-> TRUE, path |-> p1, tried |-> <<p1>>]
        ELSE IF ExistsSync(d, p2)
        THEN [exists |-> TRUE, path |-> p2, tried |-> <<p1, p2>>]
        ELSE IF ExistsSync(d, p3)
        THEN [exists |-> TRUE, path |-> p3, tried |-> <<p1, p2, p3>>]
        ELSE TrySourceDirs(d, sourceDirs, srcPath, <<p1, p2, p3>>)

\* The search for the JavaScript file: relative to the HTML file, then to
\* dist, then to the working directory, then in each of sourceDirs
ResolveSource(d, htmlFile, srcPath, sourceDirs) ==
    LET Third(p1, p2, p3) ==
            IF ExistsSync(d, p3)
            THEN [exists |-> TRUE, path |-> p3, tried |-> <<p1, p2, p3>>]
            ELSE TrySourceDirs(d, sourceDirs, srcPath, <<p1, p2, p3>>)
        Second(p1, p2) ==
            IF ExistsSync(d, p2)
            THEN [exists |-> TRUE, path |-> p2, tried |-> <<p1, p2>>]
            ELSE Only({ Third(p1, p2, p3) : p3 \in {PathResolve(Cwd, srcPath)} })
        First(p1) ==
            IF ExistsSync(d, p1)
            THEN [exists |-> TRUE, path |-> p1, tried |-> <<p1>>]
            ELSE Only({ Second(p1, p2) : p2 \in {PathResolve(DistDir, srcPath)} })
    IN  Only({ First(p1) :
                 p1 \in {PathResolve(PathDirname(htmlFile), srcPath)} })

\* a warning that lists dist before the directory of the HTML file
AttemptedPathsDistFirst(htmlFile, srcPath, sourceDirs) ==
    << PathResolve(DistDir, srcPath),
       PathResolve(PathDirname(htmlFile), srcPath),
       PathResolve(Cwd, srcPath) >>
    \o [i \in 1..Len(sourceDirs) |->
          PathResolve(PathResolve(Cwd, sourceDirs[i]), StripDotSlash(srcPath))]

\* the paths the "Attempted paths:" warning prints, numbered from 1
AttemptedPaths(htmlFile, srcPath, sourceDirs) ==
    << PathResolve(PathDirname(htmlFile), srcPath),
       PathResolve(DistDir, srcPath),
       PathResolve(Cwd, srcPath) >>
    \o [i \in 1..Len(sourceDirs) |->
          PathResolve(PathResolve(Cwd, sourceDirs[i]), StripDotSlash(srcPath))]

(* ------------------------------------------------------------------ *)
(* options.transformContent and terser                                  *)
(* ------------------------------------------------------------------ *)
BName == <<"b",".","j","s">>
Banner == <<";">>

\* The user's transform. "identity" is the default (content) => content;
\* "banner" appends a semicolon; "throwsOnB" throws for the script b.js
\* and is the identity for every other script.
TransformThrows(kind, srcPath) == kind = "throwsOnB" /\ EndsWith(srcPath, BName)

TransformContent(kind, content, srcPath) ==
    IF kind = "banner" THEN content \o Banner ELSE content

\* terser's minify, as far as the plugin depends on it: the call throws
\* (here: for a text that holds "@"), or its result holds an error (for a
\* text that holds "#"), or it holds the code, which is the text without
\* its white space.
TerserThrows(jsContent) == Includes(jsContent, <<"@">>)

TerserErrors(jsContent) == Includes(jsContent, <<"#">>)

TerserCode(jsContent) == SelectSeq(jsContent, LAMBDA c : ~IsSpace(c))

\* what the minification block does with a script: "none" when it is not
\* entered, "throw" and "error" for the two failures, "code" on success
MinifyOutcome(c, terserLoaded, content, srcPath) ==
    LET Of(t) == IF ~(c.minify /\ terserLoaded) THEN "none"
                 ELSE IF TerserThrows(t) THEN "throw"
                 ELSE IF TerserErrors(t) THEN "error"
                 ELSE "code"
    IN  Only({ Of(t) : t \in {TransformContent(c.transform, content, srcPath)} })

\* a minification that does not look at terserModule
FinalContentWithoutHandle(c, terserLoaded, content, srcPath) ==
    LET t == TransformContent(c.transform, content, srcPath)
    IN  IF c.minify /\ ~TerserThrows(t) /\ ~TerserErrors(t)
        THEN TerserCode(t) ELSE t

\* a minification whose failure leaves the script empty
FinalContentEmptyOnError(c, terserLoaded, content, srcPath) ==
    LET t == TransformContent(c.transform, content, srcPath)
        o == MinifyOutcome(c, terserLoaded, content, srcPath)
    IN  IF o = "code" THEN TerserCode(t) ELSE IF o = "none" THEN t ELSE <<>>

\* jsContent after the transform and the optional minification: a failed
\* minification leaves the transformed text
FinalContent(c, terserLoaded, content, srcPath) ==
    LET Of(t) == IF MinifyOutcome(c, terserLoaded, content, srcPath) = "code"
                 THEN TerserCode(t) ELSE t
    IN  Only({ Of(t) : t \in {TransformContent(c.transform, content, srcPath)} })

(* ------------------------------------------------------------------ *)
(* State                                                                *)
(* ------------------------------------------------------------------ *)
\* The calls of closeBundle on one plugin instance, numbered in the order
\* they begin. cfg, terserModule and scriptTagPattern (with its lastIndex)
\* belong to the closure of viteJsInline and are shared by all calls; the
\* other variables are locals of one call, one value per call.
VARIABLES
    cfg,             \* the options: [minify, inlineAll, transform, sourceDirs, global]
    terserInstalled, \* whether import("terser") succeeds
    disk,            \* the file system
    terserModule,    \* the closure's terserModule: FALSE is null
    lastIndex,       \* scriptTagPattern.lastIndex
    run,             \* how many times closeBundle was called
    foreign,         \* how many times something else wrote an HTML file
    overlapped,      \* history: the calls that ran while another was pending
    pc,              \* where each call of closeBundle stands
    outcome,         \* how each call ended
    htmlFiles,       \* the list findHtmlFiles returned
    fileIdx,         \* the index of htmlFile in htmlFiles
    htmlRead,        \* history: the text readFileSync returned and the file's mtime
    htmlContent,     \* the text of the file being processed
    modified,        \* the file's modified flag
    pending,         \* the match, jsFilePath and jsContent of an awaited minify
    steps,           \* history: what each iteration of the match loop did
    prevText,        \* history: htmlContent before the last iteration recorded
    fileLog,         \* history: one record per HTML file of the call
    warns            \* history: the console.warn calls of the call

vars == << cfg, terserInstalled, disk, terserModule, lastIndex, run, foreign,
           overlapped, pc, outcome, htmlFiles, fileIdx, htmlRead, htmlContent,
           modified, pending, steps, prevText, fileLog, warns >>

env == << cfg, terserInstalled >>

Calls == 1..MaxRuns

HtmlFile(c) == htmlFiles[c][fileIdx[c]]

Warn(kind, n, text) == [k |-> kind, n |-> n, text |-> text]

\* the last n entries of a history
Keep(seq, n) ==
    IF Len(seq) <= n THEN seq ELSE SubSeq(seq, Len(seq) - n + 1, Len(seq))

\* if (minify && terserModule): the iteration awaits terserModule.minify
MinifyAwaited(c, loaded) == c.minify /\ loaded

\* The call is suspended at one of the two await expressions: the import
\* of terser (reached when minify is set) or terserModule.minify
Awaiting(c) == (pc[c] = "load" /\ cfg.minify) \/ pc[c] = "minify"

\* the call has begun and has not returned
InProgress(c) == pc[c] \notin {"idle", "rejected"}

\* The call is in the middle of a synchronous stretch of closeBundle:
\* nothing else runs before it reaches an await or returns
Busy(c) == InProgress(c) /\ ~Awaiting(c)

\* call c may take a step: no other call holds the thread
Turn(c) == \A d \in Calls \ {c} : ~Busy(d)

(* ------------------------------------------------------------------ *)
(* closeBundle                                                          *)
(* ------------------------------------------------------------------ *)
\* closeBundle is called: the first console.log. The host may call it
\* while earlier calls are suspended at an await.
Start(c) ==
    /\ c = run + 1
    /\ run < MaxRuns
    /\ \A d \in Calls : ~Busy(d)
    /\ run' = run + 1
    /\ overlapped' = IF \E d \in Calls : InProgress(d)
                     THEN overlapped \cup {c} \cup { d \in Calls : InProgress(d) }
                     ELSE overlapped
    /\ pc' = [pc EXCEPT ![c] = "load"]
    /\ outcome' = [outcome EXCEPT ![c] = "running"]
    /\ UNCHANGED << env, disk, terserModule, lastIndex, foreign, htmlFiles,
                    fileIdx, htmlRead, htmlContent, modified, pending, steps,
                    prevText, fileLog, warns >>

\* if (minify) { try { terserModule = await import("terser") } catch ... }
\* The calls that await the import of the one module go on in the order
\* in which they asked for it.
LoadTerser(c) ==
    /\ pc[c] = "load"
    /\ Turn(c)
    /\ \A d \in Calls : d < c => pc[d] # "load"
    /\ pc' = [pc EXCEPT ![c] = "dist"]
    /\ \/ /\ ~cfg.minify
          /\ UNCHANGED << terserModule, warns >>
       \/ /\ cfg.minify /\ terserInstalled
          /\ terserModule' = TRUE
          /\ UNCHANGED warns
       \/ /\ cfg.minify /\ ~terserInstalled
          /\ warns' = [warns EXCEPT ![c] =
                          @ \o << Warn("terser-missing", 0, <<>>),
                                  Warn("continuing", 0, <<>>) >>]
          /\ UNCHANGED terserModule
    /\ UNCHANGED << env, disk, lastIndex, run, foreign, overlapped, outcome,
                    htmlFiles, fileIdx, htmlRead, htmlContent, modified,
                    pending, steps, prevText, fileLog >>

\* if (!fs.existsSync(distDir)) { console.warn(...); return; }
DistMissing(c) ==
    /\ pc[c] = "dist"
    /\ ~ExistsSync(disk, DistDir)
    /\ warns' = [warns EXCEPT ![c] = Append(@, Warn("dist-missing", 0, DistDir))]
    /\ pc' = [pc EXCEPT ![c] = "idle"]
    /\ outcome' = [outcome EXCEPT ![c] = "aborted"]
    /\ UNCHANGED << env, disk, terserModule, lastIndex, run, foreign,
                    overlapped, htmlFiles, fileIdx, htmlRead, htmlContent,
                    modified, pending, steps, prevText, fileLog >>

\* const htmlFiles = findHtmlFiles(distDir): an exception of readdirSync is
\* caught nowhere and rejects closeBundle's promise
Scan(c) ==
    /\ pc[c] = "dist"
    /\ ExistsSync(disk, DistDir)
    /\ \E found \in {FindHtmlFiles(disk, DistDir, 1, <<>>)} :
           \/ /\ found.ok
              /\ htmlFiles' = [htmlFiles EXCEPT ![c] = found.list]
              /\ fileIdx' = [fileIdx EXCEPT ![c] = 1]
              /\ pc' = [pc EXCEPT ![c] = "file"]
              /\ UNCHANGED outcome
           \/ /\ ~found.ok
              /\ pc' = [pc EXCEPT ![c] = "rejected"]
              /\ outcome' = [outcome EXCEPT ![c] = "rejected"]
              /\ UNCHANGED << htmlFiles, fileIdx >>
    /\ UNCHANGED << env, disk, terserModule, lastIndex, run, foreign,
                    overlapped, htmlRead, htmlContent, modified, pending,
                    steps, prevText, fileLog, warns >>

\* a loop over the files that a failing file ends
NextFileIdxStopsOnFailure(i, n, failed) == IF failed THEN n + 1 ELSE i + 1

\* for (const htmlFile of htmlFiles): the per-file catch is inside the
\* loop, so the file after a failed one is next, as after any other
NextFileIdx(i, n, failed) == i + 1

\* mtime is the file's mtime when the call last read or wrote it
FileRecord(file, readOk, read, final, st, writeCalls, wrote, mtime) ==
    [file |-> file, readOk |-> readOk, before |-> read.data, final |-> final,
     kinds |-> [i \in 1..Len(st) |-> st[i].kind],
     minis |-> [i \in 1..Len(st) |-> st[i].mini],
     writeCalls |-> writeCalls, wrote |-> wrote, mtime |-> mtime]

\* the number of substitutions among the kinds of a file's iterations
Substitutions(kinds) ==
    Cardinality({ i \in 1..Len(kinds) : kinds[i] = "inline" })

NoRead == [data |-> <<>>, mtime |-> 0]

\* The head of the per-file try block: read the file, clear the flag,
\* reset the pattern's lastIndex. A failing read is caught by the per-file
\* catch and the loop goes on with the next file.
ReadHtml(c) ==
    /\ pc[c] = "file"
    /\ fileIdx[c] <= Len(htmlFiles[c])
    /\ steps' = [steps EXCEPT ![c] = <<>>]
    /\ prevText' = [prevText EXCEPT ![c] = <<>>]
    /\ \/ /\ ~ReadFails(disk, HtmlFile(c))
          /\ htmlContent' = [htmlContent EXCEPT ![c] = disk[HtmlFile(c)].data]
          /\ htmlRead' = [htmlRead EXCEPT ![c] =
                             [data |-> disk[HtmlFile(c)].data,
                              mtime |-> disk[HtmlFile(c)].mtime]]
          /\ modified' = [modified EXCEPT ![c] = FALSE]
          /\ lastIndex' = 0
          /\ pc' = [pc EXCEPT ![c] = "loop"]
          /\ UNCHANGED << fileIdx, fileLog >>
       \/ /\ ReadFails(disk, HtmlFile(c))
          /\ fileLog' = [fileLog EXCEPT ![c] = Append(@,
                 FileRecord(HtmlFile(c), FALSE, NoRead, <<>>, <<>>, 0, FALSE, 0))]
          /\ fileIdx' = [fileIdx EXCEPT ![c] =
                            NextFileIdx(@, Len(htmlFiles[c]), TRUE)]
          /\ UNCHANGED << htmlContent, htmlRead, modified, lastIndex, pc >>
    /\ UNCHANGED << env, disk, terserModule, run, foreign, overlapped, outcome,
                    htmlFiles, pending, warns >>

\* n numbers the iterations of a file's loop, modulo MaxSteps + 1
Step(st, kind, m, res, raw, body, ins) ==
    [n |-> IF st = <<>> THEN 1
           ELSE (st[Len(st)].n % (MaxSteps + 1)) + 1,
     kind |-> kind, full |-> m.full, src |-> m.src, index |-> m.index,
     stop |-> m.stop, exists |-> res.exists, from |-> res.path,
     tried |-> res.tried, raw |-> raw, body |-> body, ins |-> ins,
     mini |-> IF kind = "inline"
              THEN MinifyOutcome(cfg, terserModule, raw, m.src) ELSE "none"]

NoRes == [exists |-> FALSE, path |-> <<>>, tried |-> <<>>]

NoPending == [m |-> RegExec(<<>>, 0, TRUE), res |-> NoRes, raw |-> <<>>]

\* the warnings of the else branch: the script was found nowhere
NotFoundWarnings(htmlFile, srcPath, sourceDirs) ==
    LET paths == AttemptedPaths(htmlFile, srcPath, sourceDirs)
    IN  << Warn("not-found", 0, srcPath), Warn("attempted", 0, <<>>) >>
        \o [i \in 1..Len(paths) |-> Warn("path", i, paths[i])]

\* the warning of a minification that reports an error or throws
MinifyWarnings(c, loaded, content, srcPath) ==
    LET Of(o) == IF o = "error" THEN << Warn("minify-error", 0, srcPath) >>
                 ELSE IF o = "throw" THEN << Warn("minify-throw", 0, srcPath) >>
                 ELSE <<>>
    IN  Only({ Of(o) : o \in {MinifyOutcome(c, loaded, content, srcPath)} })

\* a loop that a thrown error ends as well
LoopPcStopsOnError(kind) ==
    IF kind \in {"none", "error"} THEN "persist" ELSE "loop"

\* Where the match loop goes after an iteration: it ends when exec returns
\* null ("none"); continue, the else branch, the per-tag catch and the
\* replacement all lead to the next exec
LoopPc(kind) == IF kind = "none" THEN "persist" ELSE "loop"

\* The end of an iteration that found the file: the outcome of the
\* minification if there was one, then
\*   htmlContent = htmlContent.replace(fullMatch, inlineScriptTag);
\*   modified = true;
\* A text longer than MaxText is not followed: the call is left at
\* "beyond", in the middle of its loop.
Replace(c, m, res, raw) ==
    \E body \in {FinalContent(cfg, terserModule, raw, m.src)} :
    \E new \in {StrReplace(htmlContent[c], m.full, InlineScriptTag(body))} :
        \/ /\ Len(new) <= MaxText
           /\ htmlContent' = [htmlContent EXCEPT ![c] = new]
           /\ steps' = [steps EXCEPT ![c] = Keep(Append(@,
                  Step(@, "inline", m, res, raw, body,
                       Inserted(htmlContent[c], m.full, InlineScriptTag(body)))),
                  MaxSteps)]
           /\ warns' = [warns EXCEPT ![c] =
                  Keep(@ \o MinifyWarnings(cfg, terserModule, raw, m.src),
                       MaxWarns)]
           /\ prevText' = [prevText EXCEPT ![c] = htmlContent[c]]
           /\ modified' = [modified EXCEPT ![c] = TRUE]
           /\ pc' = [pc EXCEPT ![c] = LoopPc("inline")]
        \/ /\ Len(new) > MaxText
           /\ pc' = [pc EXCEPT ![c] = "beyond"]
           /\ UNCHANGED << htmlContent, steps, warns, prevText, modified >>

\* One iteration of  while ((match = scriptTagPattern.exec(htmlContent)) !== null)
\* up to its end or, when terser is to minify the script, up to
\*   await terserModule.minify(jsContent, ...)
LoopStep(c) ==
    /\ pc[c] = "loop"
    /\ \E m \in {RegExec(htmlContent[c], lastIndex, cfg.global)} :
       \E res \in {IF m.found
                    THEN ResolveSource(disk, HtmlFile(c), m.src, cfg.sourceDirs)
                    ELSE NoRes} :
           /\ lastIndex' = m.lastIndex
           /\ \/ \* exec returns null: the loop ends
                 /\ ~m.found
                 /\ pc' = [pc EXCEPT ![c] = LoopPc("none")]
                 /\ UNCHANGED << htmlContent, modified, steps, warns, prevText,
                                 pending >>
              \/ \* continue: the tag is external or not marked
                 /\ m.found
                 /\ SkipsTag(m.full, m.src, cfg.inlineAll)
                 /\ steps' = [steps EXCEPT ![c] = Keep(Append(@,
                        Step(@, "skip", m, NoRes, <<>>, <<>>, <<>>)), MaxSteps)]
                 /\ prevText' = [prevText EXCEPT ![c] = htmlContent[c]]
                 /\ pc' = [pc EXCEPT ![c] = LoopPc("skip")]
                 /\ UNCHANGED << htmlContent, modified, warns, pending >>
              \/ \* the file is nowhere: warn and leave the tag
                 /\ m.found
                 /\ ~SkipsTag(m.full, m.src, cfg.inlineAll)
                 /\ ~res.exists
                 /\ warns' = [warns EXCEPT ![c] =
                        Keep(@ \o NotFoundWarnings(HtmlFile(c), m.src,
                                                   cfg.sourceDirs), MaxWarns)]
                 /\ steps' = [steps EXCEPT ![c] = Keep(Append(@,
                        Step(@, "unresolved", m, res, <<>>, <<>>, <<>>)),
                        MaxSteps)]
                 /\ prevText' = [prevText EXCEPT ![c] = htmlContent[c]]
                 /\ pc' = [pc EXCEPT ![c] = LoopPc("unresolved")]
                 /\ UNCHANGED << htmlContent, modified, pending >>
              \/ \* readFileSync or transformContent throws: the per-tag catch
                 /\ m.found
                 /\ ~SkipsTag(m.full, m.src, cfg.inlineAll)
                 /\ res.exists
                 /\ \/ ReadFails(disk, res.path)
                    \/ TransformThrows(cfg.transform, m.src)
                 /\ steps' = [steps EXCEPT ![c] = Keep(Append(@,
                        Step(@, "error", m, res, <<>>, <<>>, <<>>)), MaxSteps)]
                 /\ prevText' = [prevText EXCEPT ![c] = htmlContent[c]]
                 /\ pc' = [pc EXCEPT ![c] = LoopPc("error")]
                 /\ UNCHANGED << htmlContent, modified, warns, pending >>
              \/ \* no minification: the tag is replaced in the same turn
                 /\ m.found
                 /\ ~SkipsTag(m.full, m.src, cfg.inlineAll)
                 /\ res.exists
                 /\ ~ReadFails(disk, res.path)
                 /\ ~TransformThrows(cfg.transform, m.src)
                 /\ ~MinifyAwaited(cfg, terserModule)
                 /\ Replace(c, m, res, disk[res.path].data)
                 /\ UNCHANGED pending
              \/ \* the call is suspended until terser has minified the
                 \* script: the tag is matched and lastIndex is past it, the
                 \* text is not replaced and modified is not set yet
                 /\ m.found
                 /\ ~SkipsTag(m.full, m.src, cfg.inlineAll)
                 /\ res.exists
                 /\ ~ReadFails(disk, res.path)
                 /\ ~TransformThrows(cfg.transform, m.src)
                 /\ MinifyAwaited(cfg, terserModule)
                 /\ pending' = [pending EXCEPT ![c] =
                        [m |-> m, res |-> res, raw |-> disk[res.path].data]]
                 /\ pc' = [pc EXCEPT ![c] = "minify"]
                 /\ UNCHANGED << htmlContent, modified, steps, warns, prevText >>
    /\ UNCHANGED << env, disk, terserModule, run, foreign, overlapped, outcome,
                    htmlFiles, fileIdx, htmlRead, fileLog >>

\* terserModule.minify has settled and the call goes on after the await:
\* the result is looked at, the tag is replaced in the call's own text and
\* the flag is set. What ran meanwhile may have moved lastIndex and
\* written the file.
MinifyDone(c) ==
    /\ pc[c] = "minify"
    /\ Turn(c)
    /\ Replace(c, pending[c].m, pending[c].res, pending[c].raw)
    /\ pending' = [pending EXCEPT ![c] = NoPending]
    /\ UNCHANGED << env, disk, terserModule, lastIndex, run, foreign,
                    overlapped, outcome, htmlFiles, fileIdx, htmlRead, fileLog >>

\* what another hook of the build writes into an HTML file
ForeignText == <<"<", "p", ">", "f", "o", "r", "e", "i", "g", "n">>

\* While a call awaits terserModule.minify, something else of the build
\* (another plugin's hook, a callback) runs and writes the HTML file the
\* call is working on
ForeignWrite ==
    /\ foreign < MaxForeign
    /\ \A d \in Calls : ~Busy(d)
    /\ \E c \in Calls :
          /\ pc[c] = "minify"
          /\ ~WriteFails(disk, HtmlFile(c))
          /\ disk' = [disk EXCEPT ![HtmlFile(c)].data = ForeignText,
                                  ![HtmlFile(c)].mtime = @ + 1]
    /\ foreign' = foreign + 1
    /\ UNCHANGED << env, terserModule, lastIndex, run, overlapped, pc, outcome,
                    htmlFiles, fileIdx, htmlRead, htmlContent, modified,
                    pending, steps, prevText, fileLog, warns >>

\* a write-back that does not look at the flag
WritesBackAlways(flag) == TRUE

\* if (modified) { fs.writeFileSync(...) } else { console.log(...) }
WritesBack(flag) == flag

\* The end of the per-file try block: the file is written back when the
\* flag is set; a failing write is caught by the per-file catch. Then the
\* next file.
Persist(c) ==
    /\ pc[c] = "persist"
    /\ \/ /\ WritesBack(modified[c])
          /\ ~WriteFails(disk, HtmlFile(c))
          /\ disk' = [disk EXCEPT ![HtmlFile(c)].data = htmlContent[c],
                                  ![HtmlFile(c)].mtime = @ + 1]
          /\ fileLog' = [fileLog EXCEPT ![c] = Append(@,
                 FileRecord(HtmlFile(c), TRUE, htmlRead[c], htmlContent[c],
                            steps[c], 1, TRUE, disk[HtmlFile(c)].mtime + 1))]
       \/ /\ WritesBack(modified[c])
          /\ WriteFails(disk, HtmlFile(c))
          /\ fileLog' = [fileLog EXCEPT ![c] = Append(@,
                 FileRecord(HtmlFile(c), TRUE, htmlRead[c], htmlContent[c],
                            steps[c], 1, FALSE, htmlRead[c].mtime))]
          /\ UNCHANGED disk
       \/ /\ ~WritesBack(modified[c])
          /\ fileLog' = [fileLog EXCEPT ![c] = Append(@,
                 FileRecord(HtmlFile(c), TRUE, htmlRead[c], htmlContent[c],
                            steps[c], 0, FALSE, htmlRead[c].mtime))]
          /\ UNCHANGED disk
    /\ fileIdx' = [fileIdx EXCEPT ![c] =
           NextFileIdx(@, Len(htmlFiles[c]),
                       WritesBack(modified[c]) /\ WriteFails(disk, HtmlFile(c)))]
    /\ pc' = [pc EXCEPT ![c] = "file"]
    /\ UNCHANGED << env, terserModule, lastIndex, run, foreign, overlapped,
                    outcome, htmlFiles, htmlRead, htmlContent, modified,
                    pending, steps, prevText, warns >>

\* the loop over htmlFiles is over: "Plugin completed successfully"
Complete(c) ==
    /\ pc[c] = "file"
    /\ fileIdx[c] > Len(htmlFiles[c])
    /\ pc' = [pc EXCEPT ![c] = "idle"]
    /\ outcome' = [outcome EXCEPT ![c] = "completed"]
    /\ UNCHANGED << env, disk, terserModule, lastIndex, run, foreign,
                    overlapped, htmlFiles, fileIdx, htmlRead, htmlContent,
                    modified, pending, steps, prevText, fileLog, warns >>

(* ------------------------------------------------------------------ *)
(* The inputs: output trees, scripts and options                        *)
(* ------------------------------------------------------------------ *)
TagHead == <<"<","s","c","r","i","p","t"," ","s","r","c","=","\"">>
TagMark == <<" ","i","n","l","i","n","e">>
TagEnd == <<">","<","/","s","c","r","i","p","t",">">>
DocHead == <<"<","p",">">>

\* <script src="SRC" inline></script>, or the same without the marker
Tag(src, marked) ==
    TagHead \o src \o <<"\"">> \o (IF marked THEN TagMark ELSE <<>>) \o TagEnd

Gap(g) == [i \in 1..g |-> "\n"]

RECURSIVE JoinTags(_, _)
JoinTags(tags, g) ==
    IF tags = <<>> THEN <<>>
    ELSE IF Len(tags) = 1 THEN Head(tags)
    ELSE Head(tags) \o Gap(g) \o JoinTags(Tail(tags), g)

\* a document: <p>, then the tags, g line breaks between two of them
Doc(tags, g) == DocHead \o JoinTags(tags, g)

AName == <<"a",".","j","s">>
DotAName == <<".","/","a",".","j","s">>
HttpsName == <<"h","t","t","p","s",":","/","/","c","/","a",".","j","s">>
FtpName == <<"f","t","p",":","/","/","c","/","a",".","j","s">>
HttpAName == <<"h","t","t","p","a",".","j","s">>

HtmlI == PathResolve(DistDir, <<"i",".","h","t","m","l">>)
HtmlJ == PathResolve(DistDir, <<"j",".","h","t","m","l">>)
HtmlP == PathResolve(DistDir, <<"s","/","p",".","h","t","m","l">>)

\* script texts: shorter than a tag, longer than a tag, and two that hold
\* a dollar followed by & or by a quote
Short == <<"1",";">>
Spaced == <<"x"," ","="," ","1",";">>
Long == <<"c","o","n","s","o","l","e",".","l","o","g","(","1","2","3","4","5","6",")",";">>
\* one character short of making the inline element as long as the tag
Edge == <<"v","a","r"," ","a","b","c"," ","="," ","1","2","3","4","5",";">>
DollarAmp == <<"a","=","'","$","&","'",";">>
DollarQuote == <<"p","=","'","$","'","+","1",";">>
NotScript == <<"#",";">>
HashLong == <<"#">> \o Long
AtLong == <<"@">> \o Long

File(path, data) == [path |-> path, data |-> data, r |-> TRUE, w |-> TRUE]
FileRW(path, data, r, w) == [path |-> path, data |-> data, r |-> r, w |-> w]

\* the order in which readdirSync lists the names the model uses
NameOrder ==
    << AName, BName, <<"c">>, <<"f","t","p",":">>, HttpAName,
       <<"h","t","t","p","s",":">>, <<"i",".","h","t","m","l">>,
       <<"j",".","h","t","m","l">>, <<"p",".","h","t","m","l">>,
       <<"s">>, <<"x">> >>

IsSegPrefix(a, b) == Len(a) <= Len(b) /\ SubSeq(b, 1, Len(a)) = a

\* the directories above a path, the root left out
Ancestors(p) ==
    { JoinPath(SubSeq(Segs(p), 1, n)) : n \in 1..(Len(Segs(p)) - 1) }

\* the names in directory dir, given the paths of all files
Listing(dir, paths) ==
    LET names == { Segs(p)[Len(Segs(dir)) + 1] :
                     p \in { q \in paths : /\ IsSegPrefix(Segs(dir), Segs(q))
                                           /\ Len(Segs(q)) > Len(Segs(dir)) } }
    IN  SelectSeq(NameOrder, LAMBDA n : n \in names)

\* the file system that holds exactly the given files
MkDisk(files) ==
    LET paths == { f.path : f \in files }
        dirs  == (UNION { Ancestors(q) : q \in paths }) \ paths
    IN  [ q \in paths \cup dirs |->
            IF q \in paths
            THEN LET f == CHOOSE g \in files : g.path = q
                 IN  [kind |-> "file", data |-> f.data, names |-> <<>>,
                      mtime |-> 0,
                      r |-> f.r, w |-> f.w]
            ELSE [kind |-> "dir", data |-> <<>>, names |-> Listing(q, paths),
                  mtime |-> 0,
                  r |-> TRUE, w |-> TRUE] ]

DefaultOptions ==
    [minify |-> FALSE, inlineAll |-> FALSE, transform |-> "identity",
     sourceDirs |-> DefaultSourceDirs, global |-> TRUE]

\* the file system d with the directories in locked made unreadable
Lock(d, locked) ==
    [ q \in DOMAIN d |-> IF q \in locked THEN [d[q] EXCEPT !.r = FALSE] ELSE d[q] ]

Scenario(files, options, terser) ==
    [files |-> files, locked |-> {}, cfg |-> options, terser |-> terser]

\* one tag in one document: every kind of source path, with and without
\* the marker, with and without inlineAll, the script present or absent
EligibilityInputs ==
    { Scenario({File(HtmlI, Doc(<<Tag(src, mk)>>, 0))}
               \cup (IF present
                     THEN {File(PathResolve(DistDir, src), Short)}
                     ELSE {}),
               [DefaultOptions EXCEPT !.inlineAll = ia], FALSE) :
        src \in {AName, HttpsName, FtpName, HttpAName},
        mk \in BOOLEAN, present \in BOOLEAN, ia \in BOOLEAN }

\* the five places a script of dist/s/p.html is looked for, each holding
\* its own text
SearchRoots ==
    << PathDirname(HtmlP), DistDir, Cwd,
       PathResolve(Cwd, DefaultSourceDirs[1]),
       PathResolve(Cwd, DefaultSourceDirs[2]) >>
RootText(i) == << <<"1","2","3","4","5">>[i], ";" >>

ResolutionInputs ==
    { Scenario({File(HtmlP, Doc(<<Tag(src, TRUE)>>, 0))}
               \cup { File(PathResolve(SearchRoots[i], AName), RootText(i)) :
                        i \in present },
               DefaultOptions, FALSE) :
        src \in {AName, DotAName}, present \in SUBSET (1..5) }

\* documents of up to MaxTags marked tags for a.js and b.js, up to MaxGap
\* line breaks apart, and scripts of several lengths
TagOf(n) == IF n = "a" THEN Tag(AName, TRUE) ELSE Tag(BName, TRUE)
TagLists == UNION { [1..n -> {"a", "b"}] : n \in 1..MaxTags }

RewriteInputs ==
    { Scenario({ File(HtmlI, Doc([i \in 1..Len(tl) |-> TagOf(tl[i])], g)),
                 File(PathResolve(DistDir, AName), ca),
                 File(PathResolve(DistDir, BName), cb) },
               DefaultOptions, FALSE) :
        tl \in TagLists, g \in 0..MaxGap,
        ca \in {Short, Edge, Long, DollarAmp, DollarQuote}, cb \in {Short, Long} }

\* failures: of one script (a directory, no permission, a throwing
\* transform), of one HTML file (no read, no write), of dist itself
TwoFiles(bFiles, r, w) ==
    { FileRW(HtmlI, Doc(<<Tag(BName, TRUE), Tag(AName, TRUE)>>, 1), r, w),
      File(HtmlJ, Doc(<<Tag(AName, TRUE)>>, 0)),
      File(PathResolve(DistDir, AName), Short) } \cup bFiles

BFile == PathResolve(DistDir, BName)

\* three documents, the second of which cannot be read or written
ThreeFiles(r, w) ==
    { File(HtmlI, Doc(<<Tag(AName, TRUE)>>, 0)),
      FileRW(HtmlJ, Doc(<<Tag(AName, TRUE)>>, 0), r, w),
      File(HtmlP, Doc(<<Tag(AName, TRUE)>>, 0)),
      File(PathResolve(DistDir, AName), Short) }

FailureInputs ==
    { Scenario(TwoFiles({File(PathResolve(BFile, <<"x">>), Short)}, TRUE, TRUE),
               DefaultOptions, FALSE),
      Scenario(TwoFiles({FileRW(BFile, Short, FALSE, TRUE)}, TRUE, TRUE),
               DefaultOptions, FALSE),
      Scenario(TwoFiles({File(BFile, Short)}, TRUE, TRUE),
               [DefaultOptions EXCEPT !.transform = "throwsOnB"], FALSE),
      Scenario(TwoFiles({File(BFile, Short)}, TRUE, TRUE),
               [DefaultOptions EXCEPT !.transform = "banner"], FALSE),
      Scenario(TwoFiles({File(BFile, Short)}, FALSE, TRUE), DefaultOptions, FALSE),
      Scenario(TwoFiles({File(BFile, Short)}, TRUE, FALSE), DefaultOptions, FALSE),
      Scenario(ThreeFiles(FALSE, TRUE), DefaultOptions, FALSE),
      Scenario(ThreeFiles(TRUE, FALSE), DefaultOptions, FALSE),
      Scenario({File(DistDir, <<>>)}, DefaultOptions, FALSE),
      [Scenario(ThreeFiles(TRUE, TRUE), DefaultOptions, FALSE)
         EXCEPT !.locked = {PathDirname(HtmlP)}],
      Scenario({File(PathResolve(Cwd, AName), Short)}, DefaultOptions, FALSE) }
    \cup { Scenario({File(PathResolve(Cwd, AName), Short)},
                     [DefaultOptions EXCEPT !.minify = TRUE], terser) :
              terser \in BOOLEAN }

\* a document with the tags of b.js and a.js, and the two scripts
TwoScripts(cb) ==
    { File(HtmlI, Doc(<<Tag(BName, TRUE), Tag(AName, TRUE)>>, 1)),
      File(PathResolve(DistDir, AName), Spaced),
      File(PathResolve(DistDir, BName), cb) }

\* minify: true, with terser installed or not: one document with one or
\* two scripts, and two documents
MinifyInputs ==
    { Scenario({ File(HtmlI, Doc(<<Tag(AName, TRUE)>>, 0)),
                 File(PathResolve(DistDir, AName), ca) },
               [DefaultOptions EXCEPT !.minify = TRUE], terser) :
        ca \in {Spaced, NotScript, AtLong}, terser \in BOOLEAN }
    \cup
    { Scenario(TwoScripts(cb),
               [DefaultOptions EXCEPT !.minify = TRUE, !.transform = tr], TRUE) :
        cb \in {HashLong, AtLong, Long}, tr \in {"identity", "banner"} }
    \cup
    { Scenario(TwoScripts(cb) \cup {File(HtmlJ, Doc(<<Tag(AName, TRUE)>>, 0))},
               [DefaultOptions EXCEPT !.minify = TRUE, !.transform = tr], FALSE) :
        cb \in {HashLong, AtLong, Long}, tr \in {"identity", "banner"} }
    \cup
    { Scenario(TwoScripts(AtLong) \cup {File(HtmlJ, Doc(<<Tag(AName, TRUE)>>, 0))},
               [DefaultOptions EXCEPT !.minify = TRUE, !.transform = "banner"],
               TRUE) }

\* minify: true with terser installed, so that a call is suspended in the
\* middle of an iteration: two identical tags, and a first reference that
\* is unresolvable, unreadable or makes the transform throw
AwaitInputs ==
    { Scenario({ File(HtmlI, Doc(<<Tag(AName, TRUE), Tag(AName, TRUE)>>, g)),
                 File(PathResolve(DistDir, AName), ca) },
               [DefaultOptions EXCEPT !.minify = TRUE], TRUE) :
        g \in 0..MaxGap, ca \in {Short, Long} }
    \cup
    { Scenario((TwoScripts(Short) \ {File(BFile, Short)}) \cup bFiles,
               [DefaultOptions EXCEPT !.minify = TRUE], TRUE) :
        bFiles \in { {}, {FileRW(BFile, Short, FALSE, TRUE)} } }
    \cup
    { Scenario(TwoScripts(Short),
               [DefaultOptions EXCEPT !.minify = TRUE, !.transform = "throwsOnB"],
               TRUE) }

\* a scriptTagPattern like the default one but without the g flag
NonGlobalInputs ==
    { Scenario({File(HtmlI, Doc(<<Tag(AName, mk)>>, 0))}
               \cup (IF present
                     THEN {File(PathResolve(DistDir, AName), Short)}
                     ELSE {}),
               [DefaultOptions EXCEPT !.global = FALSE], FALSE) :
        mk \in BOOLEAN, present \in BOOLEAN }

Scenarios ==
    EligibilityInputs \cup ResolutionInputs \cup RewriteInputs
      \cup FailureInputs \cup MinifyInputs \cup AwaitInputs
      \cup NonGlobalInputs

Init ==
    /\ \E sc \in Scenarios :
          /\ cfg = sc.cfg
          /\ terserInstalled = sc.terser
          /\ disk = Lock(MkDisk(sc.files), sc.locked)
    /\ terserModule = FALSE
    /\ lastIndex = 0
    /\ run = 0
    /\ foreign = 0
    /\ overlapped = {}
    /\ pc = [c \in Calls |-> "idle"]
    /\ outcome = [c \in Calls |-> "none"]
    /\ htmlFiles = [c \in Calls |-> <<>>]
    /\ fileIdx = [c \in Calls |-> 0]
    /\ htmlRead = [c \in Calls |-> NoRead]
    /\ htmlContent = [c \in Calls |-> <<>>]
    /\ modified = [c \in Calls |-> FALSE]
    /\ pending = [c \in Calls |-> NoPending]
    /\ steps = [c \in Calls |-> <<>>]
    /\ prevText = [c \in Calls |-> <<>>]
    /\ fileLog = [c \in Calls |-> <<>>]
    /\ warns = [c \in Calls |-> <<>>]

Next ==
    \/ \E c \in Calls : Start(c)
    \/ \E c \in Calls : LoadTerser(c)
    \/ \E c \in Calls : DistMissing(c)
    \/ \E c \in Calls : Scan(c)
    \/ \E c \in Calls : ReadHtml(c)
    \/ \E c \in Calls : LoopStep(c)
    \/ \E c \in Calls : MinifyDone(c)
    \/ \E c \in Calls : Persist(c)
    \/ \E c \in Calls : Complete(c)
    \/ ForeignWrite
Spec == Init /\ [][Next]_vars

\* A call of closeBundle that has begun runs on: the steps of the async
\* function are taken as long as one is possible, and an awaited promise
\* settles. Whether the host calls closeBundle again, and whether anything
\* else writes a file, is up to the host.
Running(c) ==
    \/ LoadTerser(c) \/ DistMissing(c) \/ Scan(c) \/ ReadHtml(c)
    \/ LoopStep(c) \/ MinifyDone(c) \/ Persist(c) \/ Complete(c)

FairSpec == Spec /\ \A c \in Calls : WF_vars(Running(c))
(* ------------------------------------------------------------------ *)
(* Properties                                                           *)
(* ------------------------------------------------------------------ *)
\* steps[call] and HtmlFile(call) belong to the file being processed
InFile(call) == pc[call] \in {"loop", "minify", "persist"}

LastStep(call) == steps[call][Len(steps[call])]

StepKinds(call) == [i \in 1..Len(steps[call]) |-> steps[call][i].kind]

\* nothing has written the file since the call of the record read it or,
\* if it wrote it, since it wrote it
Untouched(r) == disk[r.file].mtime = r.mtime

\* the candidate locations of a script, in the order the specification
\* gives: the document's directory, the output root, the working
\* directory, then each extra source directory in listed order
CandidateOrder(htmlFile, srcPath, sourceDirs) ==
    << PathResolve(PathDirname(htmlFile), srcPath),
       PathResolve(DistDir, srcPath),
       PathResolve(Cwd, srcPath) >>
    \o [i \in 1..Len(sourceDirs) |->
          PathResolve(PathResolve(Cwd, sourceDirs[i]), StripDotSlash(srcPath))]

Existing(paths) == { i \in 1..Len(paths) : ExistsSync(disk, paths[i]) }

\* a source path that starts with a scheme and ://
ProtocolPrefixed(srcPath) ==
    \E i \in 2..Len(srcPath) :
        /\ StartsWithAt(srcPath, i, <<":", "/", "/">>)
        /\ \A k \in 1..(i - 1) : srcPath[k] \notin {"/", ":", "."}

RECURSIVE MatchesFrom(_, _)
\* every match of the pattern in a text that is not rewritten meanwhile
MatchesFrom(t, li) ==
    LET Rest(m) == IF m.found THEN <<m>> \o MatchesFrom(t, m.lastIndex) ELSE <<>>
    IN  Only({ Rest(m) : m \in {RegExec(t, li, TRUE)} })

\* C1: a document is written back if and only if at least one substitution
\* was applied to its text in this run, and at most once per run: every
\* processed file has at most one write, has one exactly when it had a
\* substitution, and the file on disk holds the rewritten text after a
\* write that succeeded and its old text otherwise.
C1_WrittenIffSubstituted ==
    \A call \in Calls :
        /\ \A i \in 1..Len(fileLog[call]) :
             LET r == fileLog[call][i]
             IN  /\ r.writeCalls <= 1
                 /\ (r.writeCalls = 1) <=> (Substitutions(r.kinds) >= 1)
                 /\ r.wrote => r.writeCalls = 1
                 /\ Substitutions(r.kinds) = 0 => r.final = r.before
                 /\ (r.readOk /\ Untouched(r)) =>
                      disk[r.file].data = IF r.wrote THEN r.final ELSE r.before
        /\ \A i, j \in 1..Len(fileLog[call]) : i # j => fileLog[call][i].file # fileLog[call][j].file

C1_Witness ==
    \E call \in Calls :
        \E i \in 1..Len(fileLog[call]) :
            /\ Substitutions(fileLog[call][i].kinds) >= 2
            /\ fileLog[call][i].wrote
            /\ fileLog[call][i].final # fileLog[call][i].before
            /\ disk[fileLog[call][i].file].data = fileLog[call][i].final

\* C2: a reference is inlined only if its source resolves to an existing
\* file; when no candidate exists the tag stays in the text unchanged, the
\* flag is not set by it, the warning lists every path that was tried, in
\* the order tried, and a document with unresolvable references and no
\* substitution is not written.
C2_UnresolvedLeftAlone ==
    \A call \in Calls :
        /\ (InFile(call) /\ steps[call] # <<>> /\ LastStep(call).kind = "unresolved") =>
             LET st == LastStep(call)
                 n  == Len(st.tried)
                 lw == Len(warns[call])
             IN  /\ n = 3 + Len(cfg.sourceDirs)
                 /\ \A i \in 1..n : ~ExistsSync(disk, st.tried[i])
                 /\ htmlContent[call] = prevText[call]
                 /\ StartsWithAt(htmlContent[call], st.index + 1, st.full)
                 /\ modified[call] <=> (Substitutions(StepKinds(call)) >= 1)
                 /\ lw >= n + 2
                 /\ warns[call][lw - n - 1] = Warn("not-found", 0, st.src)
                 /\ \A i \in 1..n :
                        warns[call][lw - n + i] = Warn("path", i, st.tried[i])
        /\ InFile(call) =>
             \A i \in 1..Len(steps[call]) :
                 steps[call][i].kind = "inline" =>
                     steps[call][i].exists /\ ExistsSync(disk, steps[call][i].from)
        /\ \A i \in 1..Len(fileLog[call]) :
             LET r == fileLog[call][i]
             IN  (/\ \E k \in 1..Len(r.kinds) : r.kinds[k] = "unresolved"
                  /\ Substitutions(r.kinds) = 0)
                 => /\ r.writeCalls = 0
                    /\ (Untouched(r) => disk[r.file].data = r.before)

C2_Witness ==
    \E call \in Calls :
        /\ InFile(call) /\ steps[call] # <<>>
        /\ LastStep(call).kind = "unresolved"
        /\ Len(LastStep(call).tried) = 5
        /\ LastStep(call).tried[1] # LastStep(call).tried[2]
        /\ ~modified[call]

\* C3: a matched reference whose source path is protocol-prefixed is never
\* inlined, whatever inlineAll and the marker say.
C3_RemoteNeverInlined ==
    \A call \in Calls :
        InFile(call) =>
            \A i \in 1..Len(steps[call]) :
                ProtocolPrefixed(steps[call][i].src) => steps[call][i].kind # "inline"

\* C4: a matched reference with a local source path and no marker in its
\* tag text is inlined when inlineAll is true and its source resolves (and
\* nothing throws), and is left untouched when inlineAll is false.
C4_InlineAllDecidesUnmarked ==
    \A call \in Calls :
        InFile(call) =>
            \A i \in 1..Len(steps[call]) :
                LET st == steps[call][i]
                    resolves ==
                        Existing(CandidateOrder(HtmlFile(call), st.src, cfg.sourceDirs)) # {}
                IN  (~ProtocolPrefixed(st.src) /\ ~Includes(st.full, InlineWord)) =>
                        IF cfg.inlineAll
                        THEN (resolves /\ st.kind # "error") => st.kind = "inline"
                        ELSE st.kind = "skip"

\* C5: the text inlined for a reference is read from the first candidate,
\* in the specification's order, that exists.
C5_FirstCandidateWins ==
    \A call \in Calls :
        InFile(call) =>
            \A i \in 1..Len(steps[call]) :
                steps[call][i].kind = "inline" =>
                    LET c == CandidateOrder(HtmlFile(call), steps[call][i].src, cfg.sourceDirs)
                    IN  /\ Existing(c) # {}
                        /\ steps[call][i].from = c[MinOf(Existing(c))]
                        /\ steps[call][i].raw = disk[c[MinOf(Existing(c))]].data

C5_Witness ==
    \E call \in Calls :
        /\ InFile(call)
        /\ \E i \in 1..Len(steps[call]) :
             LET c == CandidateOrder(HtmlFile(call), steps[call][i].src, cfg.sourceDirs)
             IN  /\ steps[call][i].kind = "inline"
                 /\ steps[call][i].from = c[1]
                 /\ \E j \in Existing(c) :
                        c[j] # c[1] /\ disk[c[j]].data # steps[call][i].raw

\* C6: with the identity transform and no minification, the text after a
\* substitution is the text before it with the tag replaced by a script
\* element without src whose body is the script's text C, character for
\* character (after the line break the element starts with).
C6_BodyIsExactlyContent ==
    \A call \in Calls :
        (/\ InFile(call) /\ steps[call] # <<>>
         /\ LastStep(call).kind = "inline"
         /\ cfg.transform = "identity" /\ ~cfg.minify)
        => htmlContent[call] =
             SubSeq(prevText[call], 1, LastStep(call).index)
             \o InlineOpen \o LastStep(call).raw \o ScriptClose
             \o SubSeq(prevText[call], LastStep(call).stop + 1, Len(prevText[call]))

\* C7: a second run right after a first one applies no substitution and
\* writes no document.
C7_SecondRunChangesNothing ==
    \A call \in Calls :
        (call = 2 /\ overlapped = {} /\ foreign = 0) =>
            /\ \A i \in 1..Len(steps[call]) : steps[call][i].kind # "inline"
            /\ \A i \in 1..Len(fileLog[call]) : fileLog[call][i].writeCalls = 0

\* a text whose matches are exactly two tags of the same text, eligible
\* and resolvable
TwoSameTags(call, t) ==
    LET ms == MatchesFrom(t, 0)
    IN  /\ Len(ms) = 2
        /\ ms[1].full = ms[2].full
        /\ ~SkipsTag(ms[1].full, ms[1].src, cfg.inlineAll)
        /\ Existing(CandidateOrder(HtmlFile(call), ms[1].src, cfg.sourceDirs)) # {}

\* the pass of a call over a document of two identical tags is over,
\* nothing threw
TwoSameDone(call) ==
    /\ pc[call] = "persist"
    /\ TwoSameTags(call, htmlRead[call].data)
    /\ \A i \in 1..Len(steps[call]) : steps[call][i].kind # "error"

\* C8 as stated: of two identical eligible tags exactly one is substituted
\* in one pass, whatever the length of the inlined text, and the other is
\* still in the text after the pass.
C8_ExactlyOneOfTwo ==
    \A call \in Calls :
        TwoSameDone(call) =>
            /\ Substitutions(StepKinds(call)) = 1
            /\ Includes(htmlContent[call],
                        MatchesFrom(htmlRead[call].data, 0)[1].full)

\* C8 amended: the first occurrence is always substituted and the pass goes
\* on from the match cursor. In a call that no other call of closeBundle
\* overlaps, exactly one substitution is applied, and the other occurrence
\* is still in the text, when the text put in is shorter than the tag by
\* more than the distance between the two tags; otherwise a second
\* substitution is applied in the same pass. Calls that overlap share the
\* cursor, and the length does not decide for them.
C8_OneOrTwoByLength ==
    \A call \in Calls :
        TwoSameDone(call) =>
            LET ms     == MatchesFrom(htmlRead[call].data, 0)
                gap    == ms[2].index - ms[1].lastIndex
                shrink == Len(ms[1].full) - Len(steps[call][1].ins)
            IN  /\ steps[call] # <<>>
                /\ steps[call][1].kind = "inline"
                /\ steps[call][1].index = ms[1].index
                /\ call \notin overlapped =>
                     IF shrink > gap
                     THEN /\ Substitutions(StepKinds(call)) = 1
                          /\ Includes(htmlContent[call], ms[1].full)
                     ELSE Substitutions(StepKinds(call)) >= 2

C8_Witness ==
    \E call \in Calls :
        /\ TwoSameDone(call)
        /\ call \notin overlapped
        /\ Substitutions(StepKinds(call)) = 2
        /\ ~Includes(htmlContent[call],
                     MatchesFrom(htmlRead[call].data, 0)[1].full)

\* C9: a document none of whose matches is eligible (each is
\* protocol-prefixed, or lacks the marker while inlineAll is false) is not
\* written and keeps its bytes.
C9_NoEligibleNoWrite ==
    \A call \in Calls :
        \A i \in 1..Len(fileLog[call]) :
            LET r  == fileLog[call][i]
                ms == MatchesFrom(r.before, 0)
            IN  (/\ r.readOk
                 /\ \A k \in 1..Len(ms) :
                       \/ ProtocolPrefixed(ms[k].src)
                       \/ (~Includes(ms[k].full, InlineWord) /\ ~cfg.inlineAll))
                => /\ r.writeCalls = 0
                   /\ (Untouched(r) => disk[r.file].data = r.before)

\* C10: an exception while reading or transforming one reference leaves
\* its tag in the text unchanged and the loop goes on: it ends only when
\* no match is left after the failed tag, a following eligible resolvable
\* reference is inlined, and the file is written.
C10_ErrorSkipsOneReference ==
    \A call \in Calls :
        /\ (InFile(call) /\ steps[call] # <<>> /\ LastStep(call).kind = "error") =>
             /\ htmlContent[call] = prevText[call]
             /\ StartsWithAt(htmlContent[call], LastStep(call).index + 1, LastStep(call).full)
             /\ pc[call] = "persist" => ~RegExec(htmlContent[call], LastStep(call).stop, TRUE).found
        /\ (pc[call] = "persist" /\ steps[call] # <<>> /\ steps[call][1].kind = "error") =>
             LET m == RegExec(htmlRead[call].data, steps[call][1].stop, TRUE)
                 c == CandidateOrder(HtmlFile(call), m.src, cfg.sourceDirs)
             IN  (/\ m.found
                  /\ ~SkipsTag(m.full, m.src, cfg.inlineAll)
                  /\ Existing(c) # {}
                  /\ ~ReadFails(disk, c[MinOf(Existing(c))])
                  /\ ~TransformThrows(cfg.transform, m.src))
                 => /\ Len(steps[call]) >= 2
                    /\ steps[call][2].kind = "inline"
                    /\ steps[call][2].full = m.full
                    /\ modified[call]
        /\ \A i \in 1..Len(fileLog[call]) :
             LET r == fileLog[call][i]
             IN  (/\ \E k \in 1..Len(r.kinds) : r.kinds[k] = "error"
                  /\ Substitutions(r.kinds) >= 1)
                 => /\ r.writeCalls = 1
                    /\ (r.wrote /\ Untouched(r)) => disk[r.file].data = r.final

C10_Witness ==
    \E call \in Calls :
        \E i \in 1..Len(fileLog[call]) :
            /\ fileLog[call][i].kinds = <<"error", "inline">>
            /\ fileLog[call][i].wrote
            /\ Includes(fileLog[call][i].final, Tag(BName, TRUE))
            /\ ~Includes(fileLog[call][i].final, Tag(AName, TRUE))

\* a file's record tells that its read or its write failed
FileFailed(r) == ~r.readOk \/ (r.writeCalls = 1 /\ ~r.wrote)

\* C11: a failing read or write of one HTML file is confined to it: the
\* files are taken one after the other in the scanner's order whatever
\* failed before, a run that completes has visited every file of the list,
\* a file is recorded as failed only if its own read or write fails, and
\* the files written keep their rewritten text.
C11_FailureConfinedToFile ==
    \A call \in Calls :
        /\ pc[call] \in {"file", "loop", "minify", "persist"} =>
             Len(fileLog[call]) = fileIdx[call] - 1
        /\ (pc[call] = "idle" /\ outcome[call] = "completed") =>
             Len(fileLog[call]) = Len(htmlFiles[call])
        /\ \A i \in 1..Len(fileLog[call]) :
             LET r == fileLog[call][i]
             IN  /\ i <= Len(htmlFiles[call]) /\ r.file = htmlFiles[call][i]
                 /\ r.readOk <=> ~ReadFails(disk, r.file)
                 /\ (r.wrote /\ Untouched(r)) => disk[r.file].data = r.final
                 /\ (r.readOk /\ Substitutions(r.kinds) >= 1 /\ ~WriteFails(disk, r.file))
                      => r.wrote
                 /\ (r.readOk /\ ~r.wrote /\ Untouched(r)) =>
                      disk[r.file].data = r.before

C11_Witness ==
    \E call \in Calls :
        /\ pc[call] = "idle" /\ outcome[call] = "completed"
        /\ Len(fileLog[call]) = 3
        /\ fileLog[call][1].wrote /\ FileFailed(fileLog[call][2]) /\ fileLog[call][3].wrote
        /\ disk[fileLog[call][1].file].data = fileLog[call][1].final
        /\ fileLog[call][1].final # fileLog[call][1].before
        /\ fileLog[call][2].readOk

\* C12: no failure is raised to the host: closeBundle never ends with a
\* rejected promise, whatever the file system holds.
C12_NeverRejects ==
    \A call \in Calls :
        outcome[call] # "rejected"

\* C13: when dist does not exist the run returns before anything is
\* scanned, read or written, and exactly one warning was emitted in the
\* whole run, whatever the configuration.
C13_AbortWithOneWarning ==
    \A call \in Calls :
        (pc[call] = "idle" /\ outcome[call] = "aborted") =>
            /\ ~ExistsSync(disk, DistDir)
            /\ htmlFiles[call] = <<>> /\ fileLog[call] = <<>> /\ steps[call] = <<>>
            /\ Len(warns[call]) = 1

\* the references of the current file that pass the skip test, resolve
\* and are read and transformed without an exception
Inlinable(call, st) ==
    LET c == CandidateOrder(HtmlFile(call), st.src, cfg.sourceDirs)
    IN  /\ ~SkipsTag(st.full, st.src, cfg.inlineAll)
        /\ Existing(c) # {}
        /\ ~ReadFails(disk, c[MinOf(Existing(c))])
        /\ ~TransformThrows(cfg.transform, st.src)

\* C14: when minify is on and terser cannot be loaded, the load is tried
\* once in the run (one pair of warnings), terserModule stays null and
\* minify is never called, and every reference that is eligible and
\* resolves is inlined with the transformed, unminified text, as with
\* minify off.
C14_LoadFailureDisablesMinifyOnly ==
    \A call \in Calls :
        (cfg.minify /\ ~terserInstalled) =>
            /\ terserModule = FALSE
            /\ Cardinality({ i \in 1..Len(warns[call]) : warns[call][i].k = "terser-missing" })
                 = IF pc[call] = "load" \/ outcome[call] = "none" THEN 0 ELSE 1
            /\ \A i \in 1..Len(fileLog[call]) :
                 \A k \in 1..Len(fileLog[call][i].minis) : fileLog[call][i].minis[k] = "none"
            /\ InFile(call) =>
                 /\ \A i \in 1..Len(steps[call]) :
                      /\ steps[call][i].mini = "none"
                      /\ Inlinable(call, steps[call][i]) => steps[call][i].kind = "inline"
                      /\ steps[call][i].kind = "inline" =>
                           steps[call][i].body =
                             TransformContent(cfg.transform, steps[call][i].raw, steps[call][i].src)
                 /\ (steps[call] # <<>> /\ LastStep(call).kind = "inline") =>
                      htmlContent[call] =
                        StrReplace(prevText[call], LastStep(call).full,
                          InlineScriptTag(
                            FinalContent([cfg EXCEPT !.minify = FALSE], terserModule,
                                         LastStep(call).raw, LastStep(call).src)))

C14_Witness ==
    \E call \in Calls :
        /\ cfg.minify /\ ~terserInstalled /\ cfg.transform = "banner"
        /\ pc[call] = "idle" /\ outcome[call] = "completed"
        /\ Len(fileLog[call]) = 2
        /\ fileLog[call][1].kinds = <<"inline", "inline">> /\ fileLog[call][1].wrote
        /\ fileLog[call][2].kinds = <<"inline">> /\ fileLog[call][2].wrote
        /\ Includes(fileLog[call][2].final, Spaced \o Banner)

\* C15: when terser fails for one script (its result holds an error, or
\* the call throws), the text put in the element is the transformed text
\* of that script, the tag is replaced and the file written, and terser's
\* outcome[call] for every other script is what it is for that script alone.
C15_MinifyFailureFallsBack ==
    \A call \in Calls :
        /\ InFile(call) =>
             /\ \A i \in 1..Len(steps[call]) :
                  LET st == steps[call][i]
                      t  == TransformContent(cfg.transform, st.raw, st.src)
                  IN  st.kind = "inline" =>
                        /\ st.mini = IF ~(cfg.minify /\ terserModule) THEN "none"
                                     ELSE IF TerserThrows(t) THEN "throw"
                                     ELSE IF TerserErrors(t) THEN "error"
                                     ELSE "code"
                        /\ st.body = IF st.mini = "code" THEN TerserCode(t) ELSE t
             /\ (steps[call] # <<>> /\ LastStep(call).mini \in {"error", "throw"}) =>
                  /\ modified[call]
                  /\ Len(warns[call]) > 0
                  /\ warns[call][Len(warns[call])].k =
                       IF LastStep(call).mini = "error" THEN "minify-error" ELSE "minify-throw"
                  /\ htmlContent[call] =
                       StrReplace(prevText[call], LastStep(call).full,
                         InlineOpen
                         \o TransformContent(cfg.transform, LastStep(call).raw, LastStep(call).src)
                         \o ScriptClose)
        /\ \A i \in 1..Len(fileLog[call]) :
             LET r == fileLog[call][i]
             IN  \A k \in 1..Len(r.minis) :
                     r.minis[k] \in {"error", "throw"} =>
                         /\ r.kinds[k] = "inline"
                         /\ r.writeCalls = 1
                         /\ ~WriteFails(disk, r.file) => r.wrote

C15_Witness ==
    \E call \in Calls :
        /\ pc[call] = "idle" /\ outcome[call] = "completed"
        /\ cfg.transform = "banner"
        /\ Len(fileLog[call]) = 2
        /\ fileLog[call][1].minis = <<"throw", "code">> /\ fileLog[call][1].wrote
        /\ fileLog[call][2].minis = <<"code">> /\ fileLog[call][2].wrote
        /\ Includes(fileLog[call][1].final, AtLong \o Banner)
        /\ Includes(fileLog[call][2].final, TerserCode(Spaced \o Banner))

\* C16: one pass over a document whose references all pass the skip test,
\* have pairwise distinct tag text and resolve without error leaves none
\* of their tags in the text.
C16_OnePassInlinesAll ==
    \A call \in Calls :
        pc[call] = "persist" =>
            LET ms == MatchesFrom(htmlRead[call].data, 0)
            IN  (/\ \A i, j \in 1..Len(ms) : i # j => ms[i].full # ms[j].full
                 /\ \A i \in 1..Len(ms) :
                      LET c == CandidateOrder(HtmlFile(call), ms[i].src, cfg.sourceDirs)
                      IN  /\ ~SkipsTag(ms[i].full, ms[i].src, cfg.inlineAll)
                          /\ Existing(c) # {}
                          /\ ~ReadFails(disk, c[MinOf(Existing(c))])
                          /\ ~TransformThrows(cfg.transform, ms[i].src))
                => \A i \in 1..Len(ms) : ~Includes(htmlContent[call], ms[i].full)

\* C17: every call of closeBundle that has begun comes to its end: the
\* completion log, the early return, or a rejection. A match loop that
\* does not end keeps its call from that end. A call whose text has
\* outgrown MaxText is out of the model's sight ("beyond") and is not
\* counted against the claim.
C17_EveryRunTerminates ==
    \A call \in Calls :
        (pc[call] = "load") ~> (pc[call] \in {"idle", "rejected", "beyond"})

=============================================================================
